---- MODULE Spec2Model ----
(***************************************************************************)
(* Model of zfq (src/src/zfq.py): the columnar FastQ codec.                *)
(*                                                                         *)
(* A text is a sequence of one-character strings.  A file on disk is       *)
(* either absent (None) or present (Some(f)).  compress and uncompress are *)
(* modelled statement group by statement group, each with its try/finally, *)
(* so that every exit path of the two functions is a path of the model.    *)
(*                                                                         *)
(* Three specifications: Spec, one compress then one uncompress; ConcSpec, *)
(* several calls at once in one destination directory; BenchSpec, the      *)
(* retry loop of the wrappers of src/bench/bench.py.                       *)
(***************************************************************************)
EXTENDS Integers, Sequences, FiniteSets, TLC

\* ------------------------------------------------------------------------
\* Bounds of the enumerated inputs
\* ------------------------------------------------------------------------
MaxRecords == 2
MaxSeqLen == 2
NumOps == 2
MaxRetry == 2

\* ------------------------------------------------------------------------
\* Generic helpers
\* ------------------------------------------------------------------------
None == << >>
Some(x) == << x >>
Get(o) == o[1]
Min(a, b) == IF a < b THEN a ELSE b

NL == "\n"
Whitespace == {" ", "\t", "\n", "\r"}
Nucleotides == {"A", "C"}

RECURSIVE Repeat(_, _)
Repeat(c, n) == IF n = 0 THEN << >> ELSE <<c>> \o Repeat(c, n - 1)

RECURSIVE Flatten(_)
Flatten(ss) == IF ss = << >> THEN << >> ELSE Head(ss) \o Flatten(Tail(ss))

RECURSIVE Count(_, _)
Count(text, c) ==
    IF text = << >> THEN 0
    ELSE (IF Head(text) = c THEN 1 ELSE 0) + Count(Tail(text), c)

\* ------------------------------------------------------------------------
\* Text file primitives used by compress and uncompress
\* ------------------------------------------------------------------------
\* Number of characters of the line starting at pos (0 at end of file).
RECURSIVE LineLen(_, _)
LineLen(text, pos) ==
    IF pos > Len(text) THEN 0
    ELSE IF text[pos] = NL THEN 1
    ELSE 1 + LineLen(text, pos + 1)

\* reader.readline(): the line at pos with its newline if it has one,
\* the empty text at end of file.
readline(text, pos) == SubSeq(text, pos, pos + LineLen(text, pos) - 1)

\* Iterating a text file: its lines in order, each with its terminator.
RECURSIVE Lines(_)
Lines(text) ==
    IF text = << >> THEN << >>
    ELSE LET n == LineLen(text, 1)
         IN  <<SubSeq(text, 1, n)>> \o Lines(SubSeq(text, n + 1, Len(text)))

\* str.strip(): leading and trailing whitespace removed.
RECURSIVE lstrip(_)
lstrip(s) ==
    IF s # << >> /\ Head(s) \in Whitespace THEN lstrip(Tail(s)) ELSE s

RECURSIVE rstrip(_)
rstrip(s) ==
    IF s # << >> /\ s[Len(s)] \in Whitespace
    THEN rstrip(SubSeq(s, 1, Len(s) - 1)) ELSE s

strip(s) == rstrip(lstrip(s))

\* reader.read(n) from position pos: at most n characters, fewer at the end.
read(text, pos, n) == SubSeq(text, pos, Min(pos + n - 1, Len(text)))

\* ------------------------------------------------------------------------
\* Files
\* ------------------------------------------------------------------------
\* A FastQ file: its text, whether it is stored gzipped, its modification
\* time.  Times are symbolic: the source's time and the time of a write.
SourceTime == "t_src"
WriteTime == "t_now"

FastqFile(enc, text, mtime) == [enc |-> enc, text |-> text, mtime |-> mtime]

\* isGzip(path): gzip.open(path).readline() raises on a plain file, but
\* not on an empty one (no header to reject), so an empty file counts as
\* gzipped.
isGzip(f) == f.enc = "gzip" \/ f.text = << >>

\* suitableOpen(path, "r"): the decoded text whichever the encoding.
suitableOpenRead(f) == f.text

\* suitableOpen(path, "w"): gzip when the name ends with ".gz".
suitableOpenWrite(endsWithGz) == IF endsWithGz THEN "gzip" ELSE "plain"

\* md5sum(path): the digest of the decoded content (gzip.open or open, as
\* isGzip says; both give the content).  MD5 is modelled as a
\* collision-free digest: two digests are equal iff the contents are.
md5sum(f) == <<"md5", f.text>>

\* As wc_l, the lines counted as the pieces between newlines.
wc_l_pieces(text) == Count(text, NL) + 1

\* As wc_m, the newlines not counted.
wc_m_without_newlines(text) == Len(text) - Count(text, NL)

\* wc -lm: the number of newline characters and the number of characters.
wc_l(text) == Count(text, NL)
wc_m(text) == Len(text)

\* ------------------------------------------------------------------------
\* RecordSplitter: compress, lines 50-57
\* ------------------------------------------------------------------------
\* writer_seq.write(">\n")
Sentinel == <<">", NL>>
EmptyColumns == [head |-> << >>, seq |-> Sentinel, qual |-> << >>]

\* writer_head.write(rec_id[1:])
headPiece(rec_id) == Tail(rec_id)

\* writer_seq.write(reader.readline().strip())
seqPiece(line) == strip(line)

\* The while loop: one record per iteration, four readline() calls each,
\* none of them checked for end of file but the first.
RECURSIVE SplitLoop(_, _, _)
SplitLoop(text, pos, cols) ==
    LET rec_id == readline(text, pos)
        p1 == pos + Len(rec_id)
        seqLine == readline(text, p1)
        p2 == p1 + Len(seqLine)
        sepLine == readline(text, p2)
        p3 == p2 + Len(sepLine)
        qualLine == readline(text, p3)
        p4 == p3 + Len(qualLine)
    IN  IF rec_id = << >> THEN cols
        ELSE SplitLoop(text, p4,
                       [head |-> cols.head \o headPiece(rec_id),
                        seq |-> cols.seq \o seqPiece(seqLine),
                        qual |-> cols.qual \o qualLine])

SplitColumns(text) == SplitLoop(text, 1, EmptyColumns)

\* ------------------------------------------------------------------------
\* MetadataCollector: compress, lines 60-70
\* ------------------------------------------------------------------------
InfoJson(qualText, in_file, modif_time) ==
    [seq |-> wc_l(qualText),
     nt |-> wc_m(qualText),
     md5 |-> md5sum(in_file),
     mtime |-> modif_time]

\* ------------------------------------------------------------------------
\* Reassembler: uncompress, lines 323-329
\* ------------------------------------------------------------------------
\* As rec_len, the newline of the quality line counted.
rec_len_with_newline(rec_qual) == Len(rec_qual)

\* rec_len = len(rec_qual) - 1
rec_len(rec_qual) == Len(rec_qual) - 1

\* As AfterSentinel, the sentinel not skipped.
noSentinelSkip(seqcol) == 1

\* reader_seq.read(2): the position after the sentinel.
AfterSentinel(seqcol) == Len(read(seqcol, 1, 2)) + 1

\* for rec_head, rec_qual in zip(reader_head, reader_qual): the records
\* emitted, in order; zip stops with the shorter of the two columns.
RECURSIVE WriteLoop(_, _, _, _)
WriteLoop(heads, quals, seqcol, pos) ==
    IF heads = << >> \/ quals = << >> THEN << >>
    ELSE LET rec_head == Head(heads)
             rec_qual == Head(quals)
             slice == read(seqcol, pos, rec_len(rec_qual))
         IN  <<[head |-> rec_head, seq |-> slice, qual |-> rec_qual]>>
             \o WriteLoop(Tail(heads), Tail(quals), seqcol, pos + Len(slice))

Reassemble(cols) ==
    WriteLoop(Lines(cols.head), Lines(cols.qual), cols.seq,
              AfterSentinel(cols.seq))

\* The four writes of one iteration.
RecordText(r) == <<"@">> \o r.head \o r.seq \o <<NL>> \o <<"+", NL>> \o r.qual

FastqText(recs) == Flatten([i \in 1..Len(recs) |-> RecordText(recs[i])])

\* ------------------------------------------------------------------------
\* Workspace directories, the external codec and the archive
\* ------------------------------------------------------------------------
ColumnNames == {"head.txt", "seq.fa", "qual.txt"}
ArchiveNames == {"head.txt.zst", "seq.fa.zst", "qual.txt.zst", "info.json"}
FileNames == ColumnNames \cup ArchiveNames

ZstName(name) ==
    CASE name = "head.txt" -> "head.txt.zst"
      [] name = "seq.fa" -> "seq.fa.zst"
      [] name = "qual.txt" -> "qual.txt.zst"

\* A directory just made by os.makedirs.
EmptyDir == [n \in FileNames |-> None]

\* A zstd frame holding data; a damaged frame does not decode.
Frame(data) == [frame |-> "ok", data |-> data]

\* zstd <name>: writes <name>.zst beside the input and keeps the input.
zstdCompress(dir, name) ==
    [dir EXCEPT ![ZstName(name)] = Some(Frame(Get(dir[name])))]

\* zstd -d <name>.zst can only succeed on an existing, undamaged frame.
zstdCanDecode(dir, name) ==
    /\ dir[ZstName(name)] # None
    /\ Get(dir[ZstName(name)]).frame = "ok"

\* zstd -d <name>.zst: writes <name> beside the input and keeps the input.
zstdDecompress(dir, name) ==
    [dir EXCEPT ![name] = Some(Get(dir[ZstName(name)]).data)]

\* os.remove(os.path.join(tmp_dir, name))
osRemove(dir, name) == [dir EXCEPT ![name] = None]

\* silentexec(["zstd", ..., name]) then os.remove(name), lines 73-80: what
\* the two leave in the directory once the command has succeeded.
zstdStep(dir, name) == osRemove(zstdCompress(dir, name), name)

\* As unzstdStep, a missing frame taken for that of an empty column.
unzstdLenient(dir, name) ==
    IF dir[ZstName(name)] = None
    THEN [ok |-> TRUE, dir |-> [dir EXCEPT ![name] = Some(<< >>)]]
    ELSE IF zstdCanDecode(dir, name)
    THEN [ok |-> TRUE, dir |-> osRemove(zstdDecompress(dir, name), ZstName(name))]
    ELSE [ok |-> FALSE, dir |-> dir]

\* silentexec(["zstd", "-d", name + ".zst"]) then os.remove(name + ".zst"),
\* lines 292-298: whether the two can succeed and what they leave.  On a
\* missing or damaged frame zstd exits with an error, and check_output
\* raises.
unzstdStep(dir, name) ==
    IF zstdCanDecode(dir, name)
    THEN [ok |-> TRUE, dir |-> osRemove(zstdDecompress(dir, name), ZstName(name))]
    ELSE [ok |-> FALSE, dir |-> dir]

\* The order of the archive.add calls, lines 103-125.
TarOrder == <<"head.txt.zst", "seq.fa.zst", "qual.txt.zst", "info.json">>

\* The archive after the first k archive.add calls.
TarEntries(dir, k) ==
    [n \in ArchiveNames |->
        IF \E i \in 1..k : TarOrder[i] = n THEN dir[n] ELSE None]

ArchiveFile(entries, mtime) == [entries |-> entries, mtime |-> mtime]

\* archive.extractall(tmp_dir): every entry of the archive, under its name.
extractall(dir, arch) ==
    [n \in FileNames |-> IF n \in ArchiveNames THEN arch.entries[n] ELSE dir[n]]

Columns(dir) ==
    [head |-> Get(dir["head.txt"]),
     seq |-> Get(dir["seq.fa"]),
     qual |-> Get(dir["qual.txt"])]

\* ------------------------------------------------------------------------
\* The inputs enumerated
\* ------------------------------------------------------------------------
\* A four-line record: identifier, sequence, separator, quality.
RecordLines(id, sq, sep, ql) ==
    <<"@">> \o id \o <<NL>> \o sq \o <<NL>> \o sep \o <<NL>> \o ql \o <<NL>>

\* A valid record: "+" separator, quality as long as the sequence.
ValidRecord(sq) == RecordLines(<<"r">>, sq, <<"+">>, Repeat("!", Len(sq)))

\* The codec never looks at which nucleotide a character is, so one sequence
\* per length is enumerated: A, AC, ACA, ...  Neighbouring characters differ,
\* so a slice taken at the wrong place differs from the right one.
ReadOfLen(n) == [i \in 1..n |-> IF i % 2 = 1 THEN "A" ELSE "C"]

ValidRecords == {ValidRecord(ReadOfLen(n)) : n \in 0..MaxSeqLen}

RECURSIVE StreamsUpTo(_)
StreamsUpTo(n) ==
    IF n = 0 THEN {<< >>}
    ELSE LET shorter == StreamsUpTo(n - 1)
         IN  shorter \cup {s \o r : s \in shorter, r \in ValidRecords}

\* Valid record streams: up to MaxRecords valid records, every line
\* terminated.
ValidStreams == StreamsUpTo(MaxRecords)

\* Ends of stream that are no valid record.
BadTails ==
    { <<"@", "r", NL>>,                                   \* ends after the identifier
      <<"@", "r", NL, "A", NL>>,                          \* ends after the sequence
      <<"@", "r", NL, "A", NL, "+", NL>>,                 \* ends after the separator
      <<"@", "r", NL, "A", NL, "+", NL, "!">>,            \* last line not terminated
      <<"@", "r", NL, "A", NL, "+", NL, "!", "!", NL>>,   \* quality longer
      <<"@", "r", NL, "A", "C", NL, "+", NL, "!", NL>>,   \* quality shorter
      <<"@", "r", NL, "A", NL, "+", "r", NL, "!", NL>> }  \* separator with the id

\* An invalid stream: nothing or one valid record, then a bad tail.
InvalidStreams == {s \o t : s \in {<< >>} \cup ValidRecords, t \in BadTails}

InputTexts == ValidStreams \cup InvalidStreams

\* Whether a text is a valid record stream, decided on the text alone:
\* lines in groups of four, each terminated; "@" first; a sequence of
\* nucleotides; a "+" separator; a quality of the sequence's length.
IsRecord(l1, l2, l3, l4) ==
    /\ Len(l1) >= 2 /\ l1[1] = "@" /\ l1[Len(l1)] = NL
    /\ Len(l2) >= 1 /\ l2[Len(l2)] = NL
    /\ \A i \in 1..(Len(l2) - 1) : l2[i] \in Nucleotides
    /\ l3 = <<"+", NL>>
    /\ Len(l4) = Len(l2) /\ l4[Len(l4)] = NL

IsValidStream(text) ==
    LET ls == Lines(text)
    IN  /\ Len(ls) % 4 = 0
        /\ \A k \in 0..((Len(ls) \div 4) - 1) :
              IsRecord(ls[4 * k + 1], ls[4 * k + 2], ls[4 * k + 3], ls[4 * k + 4])

\* The records of a stream, as the number of complete groups of four lines.
NumRecords(text) == Len(Lines(text)) \div 4

\* The characters of the quality lines of a stream, terminators included.
RECURSIVE QualityChars(_)
QualityChars(ls) ==
    IF Len(ls) < 4 THEN 0
    ELSE Len(ls[4]) + QualityChars(SubSeq(ls, 5, Len(ls)))

\* ------------------------------------------------------------------------
\* State
\* ------------------------------------------------------------------------
VARIABLES
    input,      \* the file at compress's in_path (None: no such file)
    archive,    \* the file at compress's out_path, uncompress's in_path
    testfile,   \* the file at out_path + ".testmd5"
    fastq,      \* the file at uncompress's out_path
    tmpdirs,    \* the temporary directories ever made, by uuid: None once removed
    c,          \* the running call of compress
    u,          \* the running call of uncompress
    tamper,     \* what was done to the archive between the two calls
    ops,        \* the calls running side by side in one destination directory
    bench       \* the running call of a wrapper of the benchmark

vars == <<input, archive, testfile, fastq, tmpdirs, c, u, tamper, ops, bench>>

NoError == "none"

\* compress not yet called.  codec lists the columns the call has run the
\* external command on, in the order of the runs.
IdleCompress ==
    [pc |-> "idle", skip_check |-> FALSE, tmp_dir |-> 0,
     modif_time |-> SourceTime, err |-> NoError, errAt |-> "none",
     codec |-> << >>]

\* uncompress not called.
IdleUncompress ==
    [pc |-> "idle", caller |-> "none", gz |-> FALSE, skip_check |-> FALSE,
     tmp_dir |-> 0, in_info |-> None, wrote |-> FALSE,
     err |-> NoError, errAt |-> "none", codec |-> << >>]

Ended(f) == f.pc \in {"returned", "raised"}

\* A call of compress or uncompress not yet made, among those made side by
\* side.  files lists what the call itself has put in its temporary
\* directory and not removed.
IdleOp ==
    [pc |-> "idle", kind |-> "none", nested |-> FALSE, skip_check |-> FALSE,
     tmp_dir |-> 0, files |-> {}, err |-> NoError, errAt |-> "none"]

Operations == 1..NumOps

IdleOps == [p \in Operations |-> IdleOp]

\* A wrapper of the benchmark not yet called, with the metrics as the main
\* program sets them before the call.  n is the value retry was called
\* with; runs, failed and unmeasured count the executions of the command,
\* those that exited with an error, and those that exited with none and
\* whose output could not be measured.
IdleBench ==
    [pc |-> "idle", wrapper |-> "none", retry |-> 0, is_ended |-> FALSE,
     nb_retries |-> 0, size |-> None, hash |-> None, error |-> None,
     n |-> 0, runs |-> 0, failed |-> 0, unmeasured |-> 0]

\* As raiseInTry, without the finally clause: the exception goes straight
\* to the caller.
raiseWithoutFinally(f, kind) ==
    [f EXCEPT !.pc = "raised", !.err = kind, !.errAt = f.pc]

\* An exception raised inside the try block: control goes to the finally
\* clause, the exception pending.
raiseInTry(f, kind) ==
    [f EXCEPT !.pc = "finally", !.err = kind, !.errAt = f.pc]

\* The end of the finally clause: the pending exception, if any, goes on
\* to the caller; otherwise control goes on after the try statement.
afterFinally(f, next) ==
    [f EXCEPT !.pc = IF f.err # NoError THEN "raised" ELSE next]

\* silentexec(cmd): one run of the external command, on the column name.
silentexec(f, name) == [f EXCEPT !.codec = Append(@, name)]

\* As uuid4, the name drawn last drawn again.
uuid4Repeated == IF tmpdirs = << >> THEN 1 ELSE Len(tmpdirs)

\* tmp_dir = os.path.join(dest_dir, str(uuid.uuid4())): a name never used.
uuid4 == Len(tmpdirs) + 1

\* shutil.rmtree(tmp_dir)
rmtree(dirs, id) == [dirs EXCEPT ![id] = None]

Init ==
    /\ input \in {None} \cup
          {Some(FastqFile(enc, text, SourceTime)) :
              enc \in {"plain", "gzip"}, text \in InputTexts}
    /\ archive = None
    /\ testfile = None
    /\ fastq = None
    /\ tmpdirs = << >>
    /\ c = IdleCompress
    /\ u = IdleUncompress
    /\ tamper = [kind |-> "none"]
    /\ ops = IdleOps
    /\ bench = IdleBench

\* ------------------------------------------------------------------------
\* compress(in_path, out_path, skip_check, log, threads)
\* ------------------------------------------------------------------------
\* As CompressNext, the archive written before the headers are compressed.
CompressNextTarEarly(at) ==
    CASE at = "split" -> "info"
      [] at = "info" -> "zstd_seq"
      [] at = "zstd_seq" -> "zstd_qual"
      [] at = "zstd_qual" -> "tar"
      [] at = "tar" -> "zstd_head"
      [] at = "zstd_head" -> "finally"

\* The order of the statements of the try block, lines 43-126: the step
\* after each when it raises nothing.
CompressNext(at) ==
    CASE at = "split" -> "info"
      [] at = "info" -> "zstd_seq"
      [] at = "zstd_seq" -> "zstd_qual"
      [] at = "zstd_qual" -> "zstd_head"
      [] at = "zstd_head" -> "tar"
      [] at = "tar" -> "finally"

\* The command line: zfq.py compress [-s].
CallCompress ==
    /\ c.pc = "idle"
    /\ \E skip \in BOOLEAN :
          c' = [IdleCompress EXCEPT !.pc = "mktmp", !.skip_check = skip]
    /\ UNCHANGED <<input, archive, testfile, fastq, tmpdirs, u, tamper, ops, bench>>

\* Lines 37-40: the temporary directory, made before the try block.
CMakeTmp ==
    /\ c.pc = "mktmp"
    /\ \/ /\ tmpdirs' = Append(tmpdirs, Some(EmptyDir))
          /\ c' = [c EXCEPT !.pc = "split", !.tmp_dir = uuid4]
       \/ /\ c' = [c EXCEPT !.pc = "raised", !.err = "OSError", !.errAt = "mktmp"]
          /\ UNCHANGED tmpdirs
    /\ UNCHANGED <<input, archive, testfile, fastq, u, tamper, ops, bench>>

\* Lines 43-57: the modification time, then the three columns.
CSplit ==
    /\ c.pc = "split"
    /\ IF input = None
       THEN /\ c' = raiseInTry(c, "FileNotFoundError")
            /\ UNCHANGED tmpdirs
       ELSE LET cols == SplitColumns(suitableOpenRead(Get(input)))
                dir == Get(tmpdirs[c.tmp_dir])
            IN  /\ tmpdirs' = [tmpdirs EXCEPT ![c.tmp_dir] =
                        Some([dir EXCEPT !["head.txt"] = Some(cols.head),
                                         !["seq.fa"] = Some(cols.seq),
                                         !["qual.txt"] = Some(cols.qual)])]
                /\ c' = [c EXCEPT !.pc = CompressNext("split"),
                                   !.modif_time = Get(input).mtime]
    /\ UNCHANGED <<input, archive, testfile, fastq, u, tamper, ops, bench>>

\* Lines 60-70: wc -lm on qual.txt, md5sum of the input, info.json.
CInfo ==
    /\ c.pc = "info"
    /\ LET dir == Get(tmpdirs[c.tmp_dir])
           info == InfoJson(Get(dir["qual.txt"]), Get(input), c.modif_time)
       IN  tmpdirs' = [tmpdirs EXCEPT ![c.tmp_dir] =
                          Some([dir EXCEPT !["info.json"] = Some(info)])]
    /\ c' = [c EXCEPT !.pc = CompressNext("info")]
    /\ UNCHANGED <<input, archive, testfile, fastq, u, tamper, ops, bench>>

\* As CZstd, the command run once more on the same column when it has
\* failed once.
CZstdRetry(at, name) ==
    /\ c.pc = at
    /\ LET run == silentexec(c, name)
       IN  \/ LET dir == Get(tmpdirs[c.tmp_dir])
              IN  /\ tmpdirs' = [tmpdirs EXCEPT ![c.tmp_dir] = Some(zstdStep(dir, name))]
                  /\ c' = [run EXCEPT !.pc = CompressNext(at)]
           \/ /\ c' = IF Len(SelectSeq(c.codec, LAMBDA n : n = name)) = 0
                       THEN run
                       ELSE raiseInTry(run, "CalledProcessError")
              /\ UNCHANGED tmpdirs
    /\ UNCHANGED <<input, archive, testfile, fastq, u, tamper, ops, bench>>

\* Lines 73-80, 83-89, 92-98: silentexec(["zstd", ...]) on one column, then
\* os.remove of the column.  The external command succeeds or exits with
\* an error, and then check_output raises.
CZstd(at, name) ==
    /\ c.pc = at
    /\ LET run == silentexec(c, name)
       IN  \/ LET dir == Get(tmpdirs[c.tmp_dir])
              IN  /\ tmpdirs' = [tmpdirs EXCEPT ![c.tmp_dir] = Some(zstdStep(dir, name))]
                  /\ c' = [run EXCEPT !.pc = CompressNext(at)]
           \/ /\ c' = raiseInTry(run, "CalledProcessError")
              /\ UNCHANGED tmpdirs
    /\ UNCHANGED <<input, archive, testfile, fastq, u, tamper, ops, bench>>

CZstdSeq == CZstd("zstd_seq", "seq.fa")
CZstdQual == CZstd("zstd_qual", "qual.txt")
CZstdHead == CZstd("zstd_head", "head.txt")

\* Lines 101-126: the archive written at out_path, entry after entry, then
\* os.utime.  A write can fail (no space left): the entries written so far
\* stay at out_path.
CTar ==
    /\ c.pc = "tar"
    /\ LET dir == Get(tmpdirs[c.tmp_dir])
       IN  \/ /\ archive' = Some(ArchiveFile(TarEntries(dir, Len(TarOrder)), c.modif_time))
              /\ c' = [c EXCEPT !.pc = CompressNext("tar")]
           \/ \E k \in 0..(Len(TarOrder) - 1) :
                 /\ archive' = Some(ArchiveFile(TarEntries(dir, k), WriteTime))
                 /\ c' = raiseInTry(c, "OSError")
    /\ UNCHANGED <<input, testfile, fastq, tmpdirs, u, tamper, ops, bench>>

\* Lines 127-128: finally: shutil.rmtree(tmp_dir).
CFinally ==
    /\ c.pc = "finally"
    /\ tmpdirs' = rmtree(tmpdirs, c.tmp_dir)
    /\ c' = afterFinally(c, IF c.skip_check THEN "returned" ELSE "verify")
    /\ UNCHANGED <<input, archive, testfile, fastq, u, tamper, ops, bench>>

\* Lines 130-133: uncompress(out_path, test_file_path, False, FakeLogger()).
CCheckCall ==
    /\ c.pc = "verify"
    /\ c' = [c EXCEPT !.pc = "verifying"]
    /\ u' = [IdleUncompress EXCEPT !.pc = "mktmp", !.caller = "compress"]
    /\ UNCHANGED <<input, archive, testfile, fastq, tmpdirs, tamper, ops, bench>>

\* Lines 133-134: uncompress returns, and the test file is removed; or it
\* raises, and the exception goes on to compress's caller.
CCheckReturn ==
    /\ c.pc = "verifying"
    /\ u.caller = "compress"
    /\ Ended(u)
    /\ IF u.pc = "returned"
       THEN /\ testfile' = None
            /\ c' = [c EXCEPT !.pc = "returned"]
       ELSE /\ c' = [c EXCEPT !.pc = "raised", !.err = u.err, !.errAt = "verify"]
            /\ UNCHANGED testfile
    /\ u' = IdleUncompress
    /\ UNCHANGED <<input, archive, fastq, tmpdirs, tamper, ops, bench>>

\* ------------------------------------------------------------------------
\* The archive between the two calls
\* ------------------------------------------------------------------------
\* The archive is a file like any other: once written and before it is read
\* it may have been altered.  The sequence column is altered inside its frame
\* (one character replaced, the last one dropped, one added), its frame is
\* damaged, or an entry is missing.
\* Between a compress that has returned and the next call.
CanTamper ==
    /\ c.pc = "returned"
    /\ u.pc = "idle" /\ tamper.kind = "none"
    /\ archive # None

AlteredSeq(data, kind, pos) ==
    CASE kind = "subst" -> [data EXCEPT ![pos] = "G"]
      [] kind = "drop" -> SubSeq(data, 1, Len(data) - 1)
      [] kind = "add" -> Append(data, "G")

TamperSeq ==
    /\ CanTamper
    /\ Get(archive).entries["seq.fa.zst"] # None
    /\ LET arch == Get(archive)
           data == Get(arch.entries["seq.fa.zst"]).data
       IN  \E kind \in {"subst", "drop", "add"} :
           \E pos \in 1..Len(data) :
              /\ kind # "subst" => pos = Len(data)
              /\ kind = "subst" => pos <= Len(Sentinel) + 1 \/ pos = Len(data)
              /\ tamper' = [kind |-> kind, pos |-> pos]
              /\ archive' = Some([arch EXCEPT !.entries["seq.fa.zst"] =
                                    Some(Frame(AlteredSeq(data, kind, pos)))])
    /\ UNCHANGED <<input, testfile, fastq, tmpdirs, c, u, ops, bench>>

TamperFrame ==
    /\ CanTamper
    /\ Get(archive).entries["seq.fa.zst"] # None
    /\ LET arch == Get(archive)
           blob == Get(arch.entries["seq.fa.zst"])
       IN  archive' = Some([arch EXCEPT !.entries["seq.fa.zst"] =
                               Some([blob EXCEPT !.frame = "bad"])])
    /\ tamper' = [kind |-> "frame"]
    /\ UNCHANGED <<input, testfile, fastq, tmpdirs, c, u, ops, bench>>

TamperEntry ==
    /\ CanTamper
    /\ \E n \in ArchiveNames :
          /\ Get(archive).entries[n] # None
          /\ archive' = Some([Get(archive) EXCEPT !.entries[n] = None])
          /\ tamper' = [kind |-> "entry", name |-> n]
    /\ UNCHANGED <<input, testfile, fastq, tmpdirs, c, u, ops, bench>>

\* ------------------------------------------------------------------------
\* uncompress(in_path, out_path, skip_check, log)
\* ------------------------------------------------------------------------
\* The order of the statements of the try block, lines 285-335.
UncompressNext(at) ==
    CASE at = "extract" -> "info"
      [] at = "info" -> "unzstd_seq"
      [] at = "unzstd_seq" -> "unzstd_qual"
      [] at = "unzstd_qual" -> "unzstd_head"
      [] at = "unzstd_head" -> "write"
      [] at = "write" -> "check"
      [] at = "check" -> "finally"

\* The file at out_path: the test file for compress's check.
OutFile == IF u.caller = "compress" THEN testfile ELSE fastq

WriteOut(file) ==
    IF u.caller = "compress"
    THEN testfile' = file /\ UNCHANGED fastq
    ELSE fastq' = file /\ UNCHANGED testfile

\* The command line: zfq.py uncompress [-s], out_path ending with .gz or not.
CallUncompress ==
    /\ Ended(c)
    /\ u.pc = "idle"
    /\ \E skip \in BOOLEAN, gz \in BOOLEAN :
          u' = [IdleUncompress EXCEPT !.pc = "mktmp", !.caller = "main",
                                      !.skip_check = skip, !.gz = gz]
    /\ UNCHANGED <<input, archive, testfile, fastq, tmpdirs, c, tamper, ops, bench>>

\* Lines 276-279.
UMakeTmp ==
    /\ u.pc = "mktmp"
    /\ \/ /\ tmpdirs' = Append(tmpdirs, Some(EmptyDir))
          /\ u' = [u EXCEPT !.pc = "extract", !.tmp_dir = uuid4]
       \/ /\ u' = [u EXCEPT !.pc = "raised", !.err = "OSError", !.errAt = "mktmp"]
          /\ UNCHANGED tmpdirs
    /\ UNCHANGED <<input, archive, testfile, fastq, c, tamper, ops, bench>>

\* Lines 285-286: tarfile.open(in_path), extractall(tmp_dir).
UExtract ==
    /\ u.pc = "extract"
    /\ IF archive = None
       THEN /\ u' = raiseInTry(u, "FileNotFoundError")
            /\ UNCHANGED tmpdirs
       ELSE /\ tmpdirs' = [tmpdirs EXCEPT ![u.tmp_dir] =
                              Some(extractall(Get(tmpdirs[u.tmp_dir]), Get(archive)))]
            /\ u' = [u EXCEPT !.pc = UncompressNext("extract")]
    /\ UNCHANGED <<input, archive, testfile, fastq, c, tamper, ops, bench>>

\* Lines 288-289: open(info.json), json.load.
UInfo ==
    /\ u.pc = "info"
    /\ LET dir == Get(tmpdirs[u.tmp_dir])
       IN  IF dir["info.json"] = None
           THEN u' = raiseInTry(u, "FileNotFoundError")
           ELSE u' = [u EXCEPT !.pc = UncompressNext("info"),
                               !.in_info = dir["info.json"]]
    /\ UNCHANGED <<input, archive, testfile, fastq, tmpdirs, c, tamper, ops, bench>>

\* Lines 292-298, 301-307, 310-316: silentexec(["zstd", "-d", ...]) on one
\* column, then os.remove of the compressed column.
UUnzstd(at, name) ==
    /\ u.pc = at
    /\ LET step == unzstdStep(Get(tmpdirs[u.tmp_dir]), name)
           run == silentexec(u, name)
       IN  \/ /\ step.ok
              /\ tmpdirs' = [tmpdirs EXCEPT ![u.tmp_dir] = Some(step.dir)]
              /\ u' = [run EXCEPT !.pc = UncompressNext(at)]
           \/ /\ u' = raiseInTry(run, "CalledProcessError")
              /\ UNCHANGED tmpdirs
    /\ UNCHANGED <<input, archive, testfile, fastq, c, tamper, ops, bench>>

UUnzstdSeq == UUnzstd("unzstd_seq", "seq.fa")
UUnzstdQual == UUnzstd("unzstd_qual", "qual.txt")
UUnzstdHead == UUnzstd("unzstd_head", "head.txt")

\* Lines 319-330: the FastQ file written at out_path, record after record,
\* then os.utime.  A write can fail (no space left): the records written
\* so far stay at out_path.
UWrite ==
    /\ u.pc = "write"
    /\ LET recs == Reassemble(Columns(Get(tmpdirs[u.tmp_dir])))
           enc == suitableOpenWrite(u.gz)
       IN  \/ /\ WriteOut(Some(FastqFile(enc, FastqText(recs), Get(u.in_info).mtime)))
              /\ u' = [u EXCEPT !.pc = UncompressNext("write"), !.wrote = TRUE]
           \/ \E k \in 0..Len(recs) :
                 /\ WriteOut(Some(FastqFile(enc, FastqText(SubSeq(recs, 1, k)), WriteTime)))
                 /\ u' = raiseInTry(u, "OSError")
    /\ UNCHANGED <<input, archive, tmpdirs, c, tamper, ops, bench>>

\* As inconsistent, the comparison left out.
neverInconsistent(in_info, out) == FALSE

\* As inconsistent, the comparison inverted.
inconsistentInverted(in_info, out) == in_info.md5 = md5sum(out)

\* Line 334: in_info["md5"] != md5sum(out_path)
inconsistent(in_info, out) == in_info.md5 # md5sum(out)

\* Lines 332-335: the consistency test.
UCheck ==
    /\ u.pc = "check"
    /\ IF ~u.skip_check /\ inconsistent(Get(u.in_info), Get(OutFile))
       THEN u' = raiseInTry(u, "Exception")
       ELSE u' = [u EXCEPT !.pc = UncompressNext("check")]
    /\ UNCHANGED <<input, archive, testfile, fastq, tmpdirs, c, tamper, ops, bench>>

\* Lines 336-337: finally: shutil.rmtree(tmp_dir).
UFinally ==
    /\ u.pc = "finally"
    /\ tmpdirs' = rmtree(tmpdirs, u.tmp_dir)
    /\ u' = afterFinally(u, "returned")
    /\ UNCHANGED <<input, archive, testfile, fastq, c, tamper, ops, bench>>

\* ------------------------------------------------------------------------
\* Specification
\* ------------------------------------------------------------------------
Next ==
    \/ CallCompress
    \/ CMakeTmp
    \/ CSplit
    \/ CInfo
    \/ CZstdSeq
    \/ CZstdQual
    \/ CZstdHead
    \/ CTar
    \/ CFinally
    \/ CCheckCall
    \/ CCheckReturn
    \/ TamperSeq
    \/ TamperFrame
    \/ TamperEntry
    \/ CallUncompress
    \/ UMakeTmp
    \/ UExtract
    \/ UInfo
    \/ UUnzstdSeq
    \/ UUnzstdQual
    \/ UUnzstdHead
    \/ UWrite
    \/ UCheck
    \/ UFinally

Spec == Init /\ [][Next]_vars

\* ------------------------------------------------------------------------
\* Calls side by side in one destination directory
\* ------------------------------------------------------------------------
\* Several calls of compress and uncompress run at once, each on its own
\* in_path and out_path, all with the same dest_dir: tmpdirs is that
\* directory.  Only where the files are matters here: a file of a temporary
\* directory holds the call that wrote it.

\* Lines 39-40: if not os.path.exists(tmp_dir): os.makedirs(tmp_dir).  A
\* directory that exists is taken as it is.
makedirs(dirs, id) ==
    IF id \in DOMAIN dirs
    THEN IF dirs[id] = None THEN [dirs EXCEPT ![id] = Some(EmptyDir)] ELSE dirs
    ELSE Append(dirs, Some(EmptyDir))

\* The columns in the order their codec steps stand in both try blocks.
ColumnOrder == <<"seq.fa", "qual.txt", "head.txt">>

ZstdAt(name) ==
    CASE name = "seq.fa" -> "zstd_seq"
      [] name = "qual.txt" -> "zstd_qual"
      [] name = "head.txt" -> "zstd_head"

UnzstdAt(name) ==
    CASE name = "seq.fa" -> "unzstd_seq"
      [] name = "qual.txt" -> "unzstd_qual"
      [] name = "head.txt" -> "unzstd_head"

\* One statement group of call p, on the paths it builds from its tmp_dir:
\* it opens the files reads, writes the files writes and removes the files
\* removes.  A path that is not there raises FileNotFoundError.
PStep(p, reads, writes, removes, next) ==
    LET o == ops[p]
        ws == tmpdirs[o.tmp_dir]
    IN  IF ws = None \/ \E n \in reads \cup removes : Get(ws)[n] = None
        THEN /\ ops' = [ops EXCEPT ![p] = raiseInTry(o, "FileNotFoundError")]
             /\ UNCHANGED tmpdirs
        ELSE /\ tmpdirs' = [tmpdirs EXCEPT ![o.tmp_dir] =
                   Some([n \in FileNames |->
                            IF n \in removes THEN None
                            ELSE IF n \in writes THEN Some(p)
                            ELSE Get(ws)[n]])]
             /\ ops' = [ops EXCEPT ![p] =
                   [o EXCEPT !.pc = next, !.files = (@ \cup writes) \ removes]]

\* The step of the external command on a column that raises.
PCodecError(p) ==
    /\ ops' = [ops EXCEPT ![p] = raiseInTry(ops[p], "CalledProcessError")]
    /\ UNCHANGED tmpdirs

ColumnAt(at) == CHOOSE n \in ColumnNames : at \in {ZstdAt(n), UnzstdAt(n)}

\* The command line, once per call.  The test of uncompress passes or not
\* at PCheck and touches no temporary file either way, so that -s is drawn
\* for compress only, where it decides whether uncompress is called.
PCall(p) ==
    /\ ops[p].pc = "idle"
    /\ \E kind \in {"compress", "uncompress"}, skip \in BOOLEAN :
          /\ kind = "uncompress" => ~skip
          /\ ops' = [ops EXCEPT ![p] =
                [IdleOp EXCEPT !.pc = "mktmp", !.kind = kind, !.skip_check = skip]]
    /\ UNCHANGED <<input, archive, testfile, fastq, tmpdirs, c, u, tamper, bench>>

\* Lines 37-40 and 276-279.
PMakeTmp(p) ==
    /\ ops[p].pc = "mktmp"
    /\ \/ LET id == uuid4
          IN  /\ tmpdirs' = makedirs(tmpdirs, id)
              /\ ops' = [ops EXCEPT ![p] =
                    [@ EXCEPT !.tmp_dir = id,
                              !.pc = IF ops[p].kind = "compress"
                                     THEN "split" ELSE "extract"]]
       \/ /\ ops' = [ops EXCEPT ![p] =
                [@ EXCEPT !.pc = "raised", !.err = "OSError", !.errAt = "mktmp"]]
          /\ UNCHANGED tmpdirs
    /\ UNCHANGED <<input, archive, testfile, fastq, c, u, tamper, bench>>

\* Lines 46-57: head.txt, seq.fa and qual.txt written.
PSplit(p) ==
    /\ ops[p].kind = "compress" /\ ops[p].pc = "split"
    /\ PStep(p, {}, ColumnNames, {}, CompressNext("split"))
    /\ UNCHANGED <<input, archive, testfile, fastq, c, u, tamper, bench>>

\* Lines 60-70: wc on qual.txt, info.json written.
PInfo(p) ==
    /\ ops[p].kind = "compress" /\ ops[p].pc = "info"
    /\ PStep(p, {"qual.txt"}, {"info.json"}, {}, CompressNext("info"))
    /\ UNCHANGED <<input, archive, testfile, fastq, c, u, tamper, bench>>

\* Lines 73-98: zstd on a column, then os.remove of the column.
PZstd(p) ==
    /\ ops[p].kind = "compress"
    /\ ops[p].pc \in {"zstd_seq", "zstd_qual", "zstd_head"}
    /\ LET name == ColumnAt(ops[p].pc)
       IN  \/ PStep(p, {name}, {ZstName(name)}, {name}, CompressNext(ops[p].pc))
           \/ PCodecError(p)
    /\ UNCHANGED <<input, archive, testfile, fastq, c, u, tamper, bench>>

\* Lines 101-126: the four files added to the archive.
PTar(p) ==
    /\ ops[p].kind = "compress" /\ ops[p].pc = "tar"
    /\ PStep(p, ArchiveNames, {}, {}, CompressNext("tar"))
    /\ UNCHANGED <<input, archive, testfile, fastq, c, u, tamper, bench>>

\* Lines 285-286: the four entries extracted.
PExtract(p) ==
    /\ ops[p].kind = "uncompress" /\ ops[p].pc = "extract"
    /\ PStep(p, {}, ArchiveNames, {}, UncompressNext("extract"))
    /\ UNCHANGED <<input, archive, testfile, fastq, c, u, tamper, bench>>

\* Lines 288-289: info.json read.
PReadInfo(p) ==
    /\ ops[p].kind = "uncompress" /\ ops[p].pc = "info"
    /\ PStep(p, {"info.json"}, {}, {}, UncompressNext("info"))
    /\ UNCHANGED <<input, archive, testfile, fastq, c, u, tamper, bench>>

\* Lines 292-316: zstd -d on a column, then os.remove of the frame.
PUnzstd(p) ==
    /\ ops[p].kind = "uncompress"
    /\ ops[p].pc \in {"unzstd_seq", "unzstd_qual", "unzstd_head"}
    /\ LET name == ColumnAt(ops[p].pc)
       IN  \/ PStep(p, {ZstName(name)}, {name}, {ZstName(name)}, UncompressNext(ops[p].pc))
           \/ PCodecError(p)
    /\ UNCHANGED <<input, archive, testfile, fastq, c, u, tamper, bench>>

\* Lines 319-330: the three columns read, the FastQ file written.
PWrite(p) ==
    /\ ops[p].kind = "uncompress" /\ ops[p].pc = "write"
    /\ PStep(p, ColumnNames, {}, {}, UncompressNext("write"))
    /\ UNCHANGED <<input, archive, testfile, fastq, c, u, tamper, bench>>

\* Lines 332-335: the consistency test, which reads out_path only.
PCheck(p) ==
    /\ ops[p].kind = "uncompress" /\ ops[p].pc = "check"
    /\ \/ ops' = [ops EXCEPT ![p] = [@ EXCEPT !.pc = UncompressNext("check")]]
       \/ /\ ~ops[p].skip_check
          /\ ops' = [ops EXCEPT ![p] = raiseInTry(@, "Exception")]
    /\ UNCHANGED <<input, archive, testfile, fastq, tmpdirs, c, u, tamper, bench>>

\* Lines 127-133 and 336-337: shutil.rmtree(tmp_dir), which raises when the
\* directory is not there; then compress, unless told to skip it, calls
\* uncompress on its archive.  A call that ends has no tmp_dir any more.
PFinally(p) ==
    /\ ops[p].pc = "finally"
    /\ LET o == ops[p]
       IN  IF tmpdirs[o.tmp_dir] = None
           THEN /\ ops' = [ops EXCEPT ![p] =
                      [o EXCEPT !.pc = "raised", !.err = "FileNotFoundError",
                                !.errAt = "finally"]]
                /\ UNCHANGED tmpdirs
           ELSE /\ tmpdirs' = rmtree(tmpdirs, o.tmp_dir)
                /\ ops' = [ops EXCEPT ![p] =
                      IF o.err = NoError /\ o.kind = "compress" /\ ~o.skip_check
                      THEN [IdleOp EXCEPT !.pc = "mktmp", !.kind = "uncompress",
                                          !.nested = TRUE]
                      ELSE afterFinally([o EXCEPT !.files = {}, !.tmp_dir = 0],
                                        "returned")]
    /\ UNCHANGED <<input, archive, testfile, fastq, c, u, tamper, bench>>

ConcInit ==
    /\ input = None
    /\ archive = None
    /\ testfile = None
    /\ fastq = None
    /\ tmpdirs = << >>
    /\ c = IdleCompress
    /\ u = IdleUncompress
    /\ tamper = [kind |-> "none"]
    /\ ops = IdleOps
    /\ bench = IdleBench

ConcNext ==
    \E p \in Operations :
       \/ PCall(p)
       \/ PMakeTmp(p)
       \/ PSplit(p)
       \/ PInfo(p)
       \/ PZstd(p)
       \/ PTar(p)
       \/ PExtract(p)
       \/ PReadInfo(p)
       \/ PUnzstd(p)
       \/ PWrite(p)
       \/ PCheck(p)
       \/ PFinally(p)

ConcSpec == ConcInit /\ [][ConcNext]_vars

\* ------------------------------------------------------------------------
\* bench.py: compress(cmd, input, output, metrics, retry) and decompress
\* ------------------------------------------------------------------------
\* The command is any shell command: each execution exits with 0 or not,
\* and one that exits with 0 has written the output file or not.

\* As exhausted, the retries never counted as used up.
exhaustedNever(retry) == FALSE

\* Lines 82 and 103: if retry < 0.
exhausted(retry) == retry < 0

benchOthers == <<input, archive, testfile, fastq, tmpdirs, c, u, tamper, ops>>

\* The call: retry = n, and line 70: is_ended = False.
BCall ==
    /\ bench.pc = "idle"
    /\ \E w \in {"compress", "decompress"}, n \in 0..MaxRetry :
          bench' = [IdleBench EXCEPT !.pc = "while", !.wrapper = w,
                                     !.retry = n, !.n = n]
    /\ UNCHANGED benchOthers

\* Lines 71 and 91: while not is_ended.
BWhile ==
    /\ bench.pc = "while"
    /\ bench' = [bench EXCEPT !.pc = IF ~bench.is_ended THEN "submit" ELSE "returned"]
    /\ UNCHANGED benchOthers

\* Lines 73-74 and 44-53: the command executed once more; when it exits with
\* an error submitMonitoredProcess raises, otherwise is_ended = True.
BSubmit ==
    /\ bench.pc = "submit"
    /\ bench.runs <= MaxRetry + 1
    /\ \/ bench' = [bench EXCEPT !.pc = "measure", !.runs = @ + 1,
                                 !.is_ended = TRUE]
       \/ bench' = [bench EXCEPT !.pc = "except", !.runs = @ + 1,
                                 !.failed = @ + 1]
    /\ UNCHANGED benchOthers

\* Lines 75-76 and 95-97, still in the try block: getFileSize(output), and
\* for decompress md5sum(output); both raise when the output file is not
\* there.
BMeasure ==
    /\ bench.pc = "measure"
    /\ \/ bench' = [bench EXCEPT !.pc = "while", !.size = Some("size"),
                       !.hash = IF bench.wrapper = "decompress"
                                THEN Some("md5") ELSE @]
       \/ bench' = [bench EXCEPT !.pc = "except", !.unmeasured = @ + 1]
    /\ UNCHANGED benchOthers

\* Lines 77-84 and 98-105: except Exception.
BExcept ==
    /\ bench.pc = "except"
    /\ bench' = [bench EXCEPT !.pc = "while",
                    !.retry = @ - 1,
                    !.error = Some("error.txt"),
                    !.nb_retries = @ + 1,
                    !.is_ended = IF exhausted(bench.retry - 1) THEN TRUE ELSE @]
    /\ UNCHANGED benchOthers

BenchInit == ConcInit

BenchNext ==
    \/ BCall
    \/ BWhile
    \/ BSubmit
    \/ BMeasure
    \/ BExcept

\* One thread runs the loop, and every execution of the command ends.
BenchSpec == BenchInit /\ [][BenchNext]_vars /\ WF_vars(BenchNext)

\* ------------------------------------------------------------------------
\* Properties
\* ------------------------------------------------------------------------
\* Errors that come from outside the program: a command that exits with an
\* error on good input, a directory or a file that cannot be written.
ExternalErrors == {"CalledProcessError", "OSError"}

HasInput == input # None
InputText == Get(input).text

\* The FastQ text the columns of an archive decode to.
ArchiveColumns(arch) ==
    [head |-> Get(arch.entries["head.txt.zst"]).data,
     seq |-> Get(arch.entries["seq.fa.zst"]).data,
     qual |-> Get(arch.entries["qual.txt.zst"]).data]

ArchiveInfo(arch) == Get(arch.entries["info.json"])

IsComplete(arch) == \A n \in ArchiveNames : arch.entries[n] # None

\* The top-level uncompress ran on the archive as compress left it, both
\* with the consistency test.
CheckedRoundTrip ==
    /\ c.pc = "returned" /\ ~c.skip_check
    /\ tamper.kind = "none"
    /\ u.caller = "main" /\ ~u.skip_check

\* C1: for a valid record stream, compress with the check fails only on an
\* external error, and uncompress with the check of the archive it wrote
\* fails only on an external error and, when it returns, has written a file
\* whose content, and so whose md5sum, is that of the input.
C1_RoundTrip ==
    /\ (c.pc = "raised" /\ HasInput /\ IsValidStream(InputText)) =>
          c.err \in ExternalErrors
    /\ (CheckedRoundTrip /\ u.pc = "raised" /\ IsValidStream(InputText)) =>
          u.err \in ExternalErrors
    /\ (CheckedRoundTrip /\ u.pc = "returned" /\ IsValidStream(InputText)) =>
          /\ fastq # None
          /\ Get(fastq).text = InputText
          /\ md5sum(Get(fastq)) = md5sum(Get(input))

C1_Witness ==
    /\ HasInput /\ IsValidStream(InputText) /\ NumRecords(InputText) = 2
    /\ Get(input).enc = "gzip"
    /\ CheckedRoundTrip /\ u.pc = "returned"
    /\ Get(fastq).text = InputText

\* A stream that ends inside a record: its lines are no multiple of four.
IsTruncated(text) == Len(Lines(text)) % 4 # 0

\* C2: when the input ends inside a record, compress ends with an error
\* and no archive is at the output path (whatever external error there
\* may be besides: only the ends without one are looked at).
C2_TruncatedRejected ==
    (HasInput /\ IsTruncated(InputText) /\ Ended(c) /\ c.err \notin ExternalErrors) =>
        /\ c.pc = "raised"
        /\ archive = None

\* The steps of a call that run inside its try block.
InTry(f) ==
    f.pc \notin {"idle", "mktmp", "verify", "verifying", "returned", "raised"}

\* C3: a temporary directory exists only while the call that made it is
\* inside its try block: it is removed when the call returns and when an
\* error reaches the caller, whichever step raised it.
C3_WorkspaceRemoved ==
    \A id \in 1..Len(tmpdirs) :
        tmpdirs[id] # None =>
            \/ c.tmp_dir = id /\ InTry(c)
            \/ u.tmp_dir = id /\ InTry(u)

C3_Witness ==
    /\ c.pc = "raised" /\ c.errAt = "verify"
    /\ u.pc = "raised" /\ u.err = "CalledProcessError" /\ u.errAt = "unzstd_qual"
    /\ Len(tmpdirs) = 3
    /\ \A id \in 1..Len(tmpdirs) : tmpdirs[id] = None

\* C4 as claimed: after an error nothing is at the destination path.
C4_NothingLeftOnError ==
    /\ c.pc = "raised" => archive = None
    /\ u.pc = "raised" => OutFile = None

\* C4 amended: an error raised before the destination is opened for writing
\* leaves nothing at the destination path; an error raised while writing,
\* or by the consistency test, leaves there what was written.
C4_NothingLeftBeforeWrite ==
    /\ (c.pc = "raised" /\ c.errAt \notin {"tar", "verify"}) => archive = None
    /\ (c.pc = "raised" /\ c.errAt \in {"tar", "verify"}) => archive # None
    /\ (u.pc = "raised" /\ u.errAt \notin {"write", "check"}) => OutFile = None
    /\ (u.pc = "raised" /\ u.errAt \in {"write", "check"}) => OutFile # None

C4_Witness ==
    /\ c.pc = "raised" /\ c.errAt = "zstd_head" /\ archive = None
    /\ u.pc = "raised" /\ u.errAt = "extract" /\ fastq = None

\* compress has ended and nothing was done since.
JustEnded == Ended(c) /\ u.caller = "none" /\ tamper.kind = "none"

\* C5: compress with the check returns only if the archive decodes to the
\* content whose md5sum it stores, and then the test file is removed; when
\* the decoded test file differs, compress ends with the error of the test
\* and the archive stays at the output path.
C5_CheckAfterCompress ==
    /\ (c.pc = "returned" /\ ~c.skip_check /\ JustEnded) =>
          /\ archive # None /\ IsComplete(Get(archive))
          /\ testfile = None
          /\ <<"md5", FastqText(Reassemble(ArchiveColumns(Get(archive))))>>
                = ArchiveInfo(Get(archive)).md5
    /\ (c.pc = "verifying" /\ u.pc = "check") =>
          /\ testfile # None
          /\ Get(testfile).text = FastqText(Reassemble(ArchiveColumns(Get(archive))))
    /\ (c.pc = "verifying" /\ u.pc = "raised" /\ u.errAt = "check") =>
          /\ u.err = "Exception"
          /\ md5sum(Get(testfile)) # ArchiveInfo(Get(archive)).md5
    /\ (c.pc = "raised" /\ c.errAt = "verify" /\ c.err = "Exception"
            /\ JustEnded) =>
          /\ ~c.skip_check
          /\ archive # None /\ IsComplete(Get(archive))
          /\ <<"md5", FastqText(Reassemble(ArchiveColumns(Get(archive))))>>
                # ArchiveInfo(Get(archive)).md5

C5_Witness ==
    /\ c.pc = "raised" /\ c.errAt = "verify" /\ c.err = "Exception"
    /\ archive # None /\ IsComplete(Get(archive))
    /\ testfile # None

\* The characters the quality lines ask of the sequence column: the sum of
\* len(rec_qual) - 1 over the pairs of header and quality lines.
RECURSIVE Requested(_, _)
Requested(heads, quals) ==
    IF heads = << >> \/ quals = << >> THEN 0
    ELSE (Len(Head(quals)) - 1) + Requested(Tail(heads), Tail(quals))

\* Position p of the sequence column of a complete archive is one the
\* reassembler puts in a record: after the sentinel, within what is asked.
IsConsumed(arch, p) ==
    LET cols == ArchiveColumns(arch)
    IN  /\ p > Len(Sentinel)
        /\ p <= Len(Sentinel) + Requested(Lines(cols.head), Lines(cols.qual))

\* C6 as claimed: with the test, an archive whose sequence column was
\* altered is never uncompressed with success.
C6_AlteredNeverReturns ==
    (u.caller = "main" /\ ~u.skip_check /\ tamper.kind \in {"subst", "drop", "add"})
        => u.pc # "returned"

\* C6 amended: an uncompress that has written its output raises, and then
\* the error of the consistency test, iff the test is not skipped and the
\* md5sum of the output differs from the stored one; that error is raised
\* nowhere else; and with the test, an archive whose sequence column was
\* altered at a character the reassembler consumes is never uncompressed
\* with success.
C6_ConsistencyError ==
    /\ (Ended(u) /\ u.wrote) =>
          (u.pc = "raised" <=>
              (~u.skip_check /\ Get(u.in_info).md5 # md5sum(Get(OutFile))))
    /\ (u.pc = "raised" /\ u.wrote) => (u.err = "Exception" /\ u.errAt = "check")
    /\ u.err = "Exception" => (u.wrote /\ ~u.skip_check)
    /\ (u.pc = "returned" /\ u.caller = "main" /\ ~u.skip_check
            /\ tamper.kind \in {"subst", "drop"})
          => ~IsConsumed(Get(archive), tamper.pos)

C6_Witness ==
    /\ HasInput /\ IsValidStream(InputText)
    /\ c.pc = "returned" /\ ~c.skip_check
    /\ tamper.kind = "subst" /\ IsConsumed(Get(archive), tamper.pos)
    /\ u.caller = "main" /\ ~u.skip_check
    /\ u.pc = "raised" /\ u.err = "Exception"

\* C6, the other half: with the test skipped, the same altered archive is
\* uncompressed with success.
C6_WitnessSkipped ==
    /\ tamper.kind = "subst" /\ IsConsumed(Get(archive), tamper.pos)
    /\ u.caller = "main" /\ u.skip_check /\ u.pc = "returned"
    /\ Get(u.in_info).md5 # md5sum(Get(fastq))

C8_MissingEntry ==
    (u.caller = "main" /\ Ended(u) /\ archive # None /\ ~IsComplete(Get(archive))) =>
        /\ u.pc = "raised"
        /\ fastq = None

C8_Witness ==
    /\ tamper.kind = "entry" /\ tamper.name = "qual.txt.zst"
    /\ u.caller = "main" /\ u.skip_check
    /\ u.pc = "raised" /\ u.errAt = "unzstd_qual" /\ u.err = "CalledProcessError"
    /\ fastq = None

\* The records the reassembler is about to emit.
AtWrite == u.pc = "write"
Emitted == Reassemble(Columns(Get(tmpdirs[u.tmp_dir])))
SeqColumn == Get(Get(tmpdirs[u.tmp_dir])["seq.fa"])

RECURSIVE SeqChars(_, _)
SeqChars(recs, n) == IF n = 0 THEN 0 ELSE SeqChars(recs, n - 1) + Len(recs[n].seq)

\* C9 as claimed: every emitted sequence has len(rec_qual) - 1 characters.
C9_ExactLength ==
    AtWrite => \A i \in 1..Len(Emitted) :
                  Len(Emitted[i].seq) = Len(Emitted[i].qual) - 1

\* C9 amended: every emitted sequence has len(rec_qual) - 1 characters or,
\* when fewer are left in the sequence column, those that are left; the
\* slices are contiguous, the first right after the two characters of the
\* sentinel; and on the columns of a valid record stream every slice has
\* len(rec_qual) - 1 characters.
C9_SliceLength ==
    AtWrite =>
        /\ \A i \in 1..Len(Emitted) :
              LET start == Len(Sentinel) + SeqChars(Emitted, i - 1)
                  left == IF Len(SeqColumn) > start THEN Len(SeqColumn) - start ELSE 0
              IN  /\ Len(Emitted[i].seq) = Min(Len(Emitted[i].qual) - 1, left)
                  /\ Emitted[i].seq =
                        SubSeq(SeqColumn, start + 1, start + Len(Emitted[i].seq))
        /\ (HasInput /\ IsValidStream(InputText) /\ tamper.kind = "none") =>
              \A i \in 1..Len(Emitted) :
                  Len(Emitted[i].seq) = Len(Emitted[i].qual) - 1

C9_Witness ==
    /\ AtWrite
    /\ HasInput /\ IsValidStream(InputText) /\ tamper.kind = "drop"
    /\ Len(Emitted) = 2
    /\ Len(Emitted[1].seq) = 2 /\ Len(Emitted[1].qual) = 3
    /\ Len(Emitted[2].seq) = 1 /\ Len(Emitted[2].qual) = 3

\* C10: on an empty input compress fails only on an external error and
\* writes an info.json with seq = 0; uncompress of that archive fails only
\* on an external error and returns with an empty file written.
C10_EmptyInput ==
    (HasInput /\ InputText = << >>) =>
        /\ c.pc = "raised" => c.err \in ExternalErrors
        /\ (archive # None /\ Get(archive).entries["info.json"] # None) =>
              ArchiveInfo(Get(archive)).seq = 0
        /\ (c.pc = "returned" /\ tamper.kind = "none" /\ u.caller = "main") =>
              /\ u.pc = "raised" => u.err \in ExternalErrors
              /\ u.pc = "returned" => (fastq # None /\ Get(fastq).text = << >>)

C10_Witness ==
    /\ HasInput /\ InputText = << >>
    /\ c.pc = "returned" /\ ~c.skip_check
    /\ tamper.kind = "none"
    /\ ArchiveInfo(Get(archive)).seq = 0
    /\ u.caller = "main" /\ ~u.skip_check /\ u.pc = "returned"
    /\ Get(fastq).text = << >>

ColumnOf(cols, name) ==
    CASE name = "seq.fa" -> cols.seq
      [] name = "qual.txt" -> cols.qual
      [] name = "head.txt" -> cols.head

FailedAt(f, at) == f.err = "CalledProcessError" /\ f.errAt = at

\* The call f has run the command on the first columns of the order, once
\* each, and when the run on the k-th failed it has run it on no other
\* since and is leaving.
OnceAndAbort(f, at(_)) ==
    /\ f.codec = SubSeq(ColumnOrder, 1, Len(f.codec))
    /\ \A k \in 1..Len(ColumnOrder) :
          FailedAt(f, at(ColumnOrder[k])) =>
             /\ f.pc \in {"finally", "raised"}
             /\ f.codec = SubSeq(ColumnOrder, 1, k)

\* Before the cleanup, the file the failed run was given is as it was.
FailedInputKept ==
    \A n \in ColumnNames :
       /\ (c.pc = "finally" /\ FailedAt(c, ZstdAt(n))) =>
             Get(tmpdirs[c.tmp_dir])[n] =
                Some(ColumnOf(SplitColumns(suitableOpenRead(Get(input))), n))
       /\ (u.pc = "finally" /\ FailedAt(u, UnzstdAt(n))) =>
             Get(tmpdirs[u.tmp_dir])[ZstName(n)] = Get(archive).entries[ZstName(n)]

\* C11 as claimed: each call runs the codec once per column at most and
\* leaves at the first run that fails, the file given to that run kept; and
\* whenever a run of the codec made compress fail, no archive is at the
\* output path.
C11_NoArchiveOnCodecError ==
    /\ OnceAndAbort(c, ZstdAt)
    /\ OnceAndAbort(u, UnzstdAt)
    /\ FailedInputKept
    /\ (c.err = "CalledProcessError") => archive = None

\* C11 amended: each call runs the codec once per column at most in its own
\* steps and leaves at the first run that fails, the file given to that run
\* kept; when one of the compression steps failed, no archive is at the
\* output path (a run that fails in the uncompress of compress's test
\* finds the archive written, and it stays).
C11_OncePerColumn ==
    /\ OnceAndAbort(c, ZstdAt)
    /\ OnceAndAbort(u, UnzstdAt)
    /\ FailedInputKept
    /\ \A n \in ColumnNames : FailedAt(c, ZstdAt(n)) => archive = None

\* compress is leaving after the codec failed on the second column.
C11_Witness ==
    /\ c.pc = "finally"
    /\ FailedAt(c, "zstd_qual")
    /\ c.codec = <<"seq.fa", "qual.txt">>
    /\ Get(tmpdirs[c.tmp_dir])["qual.txt"] # None
    /\ Get(tmpdirs[c.tmp_dir])["seq.fa.zst"] # None

\* uncompress is leaving after the codec failed on an undamaged column.
C11_WitnessUncompress ==
    /\ u.pc = "finally"
    /\ u.caller = "main"
    /\ tamper.kind = "none"
    /\ FailedAt(u, "unzstd_qual")
    /\ u.codec = <<"seq.fa", "qual.txt">>
    /\ Get(tmpdirs[u.tmp_dir])["qual.txt.zst"] # None

\* Call p is between its makedirs and the end of its rmtree.
HoldsWorkspace(p) == ops[p].pc \notin {"idle", "mktmp", "returned", "raised"}

Workspace(p) == tmpdirs[ops[p].tmp_dir]

\* C12: while a call holds a temporary directory, the directory is there,
\* it holds the files this call has written and not removed, each as this
\* call wrote it, and no other call holds the same directory.
C12_DisjointWorkspaces ==
    \A p \in Operations :
       HoldsWorkspace(p) =>
          /\ Workspace(p) # None
          /\ \A n \in FileNames :
                Get(Workspace(p))[n] = IF n \in ops[p].files THEN Some(p) ELSE None
          /\ \A q \in Operations \ {p} :
                HoldsWorkspace(q) => ops[q].tmp_dir # ops[p].tmp_dir

\* Two calls are in the middle of their work, each with files in its
\* directory, after a third directory made between theirs was removed.
C12_Witness ==
    \E p, q \in Operations :
       /\ p # q
       /\ ops[p].kind = "compress" /\ ops[p].pc = "tar"
       /\ ops[q].kind = "uncompress" /\ ops[q].nested /\ ops[q].pc = "write"
       /\ ops[p].tmp_dir < ops[q].tmp_dir
       /\ \E id \in DOMAIN tmpdirs :
             ops[p].tmp_dir < id /\ id < ops[q].tmp_dir /\ tmpdirs[id] = None

\* At most n + 1 executions, none after one that exited with no error.
BoundedRuns ==
    /\ bench.runs <= bench.n + 1
    /\ bench.runs - bench.failed <= 1
    /\ bench.pc = "submit" => bench.runs = bench.failed

\* C13 as claimed: at most n + 1 executions, none after one that succeeded,
\* and on return nb_retries is the number of executions that failed.
C13_CountsFailedRuns ==
    /\ BoundedRuns
    /\ bench.pc = "returned" => bench.nb_retries = bench.failed

\* What C13 amended says of the counts.
CountsRaised ==
    /\ BoundedRuns
    /\ bench.unmeasured <= 1
    /\ bench.pc = "returned" =>
          bench.nb_retries = bench.failed + bench.unmeasured

\* C13 amended: the wrapper returns, after at most n + 1 executions and
\* none after one that succeeded, and on return nb_retries is the number of
\* executions that failed, plus one when the output of the execution that
\* succeeded could not be measured.
C13_BoundedRetries == []CountsRaised /\ <>(bench.pc = "returned")

\* Called with retry = 2, the wrapper has returned after two executions that
\* failed and one that succeeded.
C13_Witness ==
    /\ bench.pc = "returned"
    /\ bench.n = 2
    /\ bench.runs = 3
    /\ bench.failed = 2
    /\ bench.nb_retries = 2
    /\ bench.size # None

====
